---- MODULE Spec2Model ----
(***************************************************************************)
(* A model of irida.py: create_project (list the remote projects, reuse    *)
(* or create one) and prepare (resolve the project id, scan a folder of    *)
(* fastq files, optionally sort them, write SampleList.csv).               *)
(*                                                                         *)
(* A Python str is a sequence of one-character strings, so that replace,   *)
(* split, the regular expressions and the f-string of the manifest row are *)
(* computed character by character.                                        *)
(***************************************************************************)
EXTENDS Integers, Sequences, FiniteSets, TLC

\* ------------------------------------------------------------ bounds
\* most files the scanned folder holds
MaxFiles == 2
\* most projects the remote lists before the first call
MaxListing == 2
\* most create_project calls one client makes, one after the other
MaxCalls == 2

\* ------------------------------------------------------------ str
Digit == {"0", "1", "2", "3", "4", "5", "6", "7", "8", "9"}

DigitVal(c) ==
    CASE c = "0" -> 0 [] c = "1" -> 1 [] c = "2" -> 2 [] c = "3" -> 3
      [] c = "4" -> 4 [] c = "5" -> 5 [] c = "6" -> 6 [] c = "7" -> 7
      [] c = "8" -> 8 [] c = "9" -> 9

DigitChar(d) ==
    CASE d = 0 -> "0" [] d = 1 -> "1" [] d = 2 -> "2" [] d = 3 -> "3"
      [] d = 4 -> "4" [] d = 5 -> "5" [] d = 6 -> "6" [] d = 7 -> "7"
      [] d = 8 -> "8" [] d = 9 -> "9"

\* str(n) of a non-negative int, as the f-string formats it
RECURSIVE IntToStr(_)
IntToStr(n) ==
    IF n < 10 THEN <<DigitChar(n)>>
    ELSE IntToStr(n \div 10) \o <<DigitChar(n % 10)>>

\* t occurs in s at position i
OccursAt(s, i, t) ==
    /\ i >= 1
    /\ i + Len(t) - 1 <= Len(s)
    /\ \A k \in 1..Len(t) : s[i + k - 1] = t[k]

\* the first place from i on where t occurs in s, 0 when there is none
RECURSIVE FindFrom(_, _, _)
FindFrom(s, t, i) ==
    IF i + Len(t) - 1 > Len(s) THEN 0
    ELSE IF OccursAt(s, i, t) THEN i
    ELSE FindFrom(s, t, i + 1)

\* s.find(t), 1-based; 0 when t does not occur
Find(s, t) == FindFrom(s, t, 1)

\* t in s
Contains(s, t) == Find(s, t) # 0

\* s.endswith(t)
EndsWith(s, t) == Len(t) <= Len(s) /\ OccursAt(s, Len(s) - Len(t) + 1, t)

\* s.replace(old, new): every non-overlapping occurrence, left to right
RECURSIVE Replace(_, _, _)
Replace(s, old, new) ==
    LET i == Find(s, old)
    IN  IF i = 0 THEN s
        ELSE SubSeq(s, 1, i - 1) \o new
             \o Replace(SubSeq(s, i + Len(old), Len(s)), old, new)

\* s.split(sep)
RECURSIVE Split(_, _)
Split(s, sep) ==
    LET i == Find(s, sep)
    IN  IF i = 0 THEN <<s>>
        ELSE <<SubSeq(s, 1, i - 1)>>
             \o Split(SubSeq(s, i + Len(sep), Len(s)), sep)

RECURSIVE Concat(_)
Concat(ss) == IF ss = <<>> THEN <<>> ELSE Head(ss) \o Concat(Tail(ss))

\* ------------------------------------------------------------ re
\* One position of a pattern: "." (any character but a newline) or a set
\* of characters.
Dot == [dot |-> TRUE, set |-> {}]
Cls(S) == [dot |-> FALSE, set |-> S]
Lit(t) == [k \in 1..Len(t) |-> Cls({t[k]})]

ElemMatches(e, c) == IF e.dot THEN c # "\n" ELSE c \in e.set

\* the alternative alt matches s at position i
AltMatchesAt(alt, s, i) ==
    /\ i + Len(alt) - 1 <= Len(s)
    /\ \A k \in 1..Len(alt) : ElemMatches(alt[k], s[i + k - 1])

non_host_fastq_gz ==
    <<Dot>> \o Lit(<<"n", "o", "n", "_", "h", "o", "s", "t">>)
    \o <<Dot>> \o Lit(<<"f", "a", "s", "t", "q">>)
    \o <<Dot>> \o Lit(<<"g", "z">>)

\* re.compile("_S[0-9]{1,3}|_R[12].|_1.non_host.fastq.gz|_2.non_host.fastq.gz")
\* Each alternative is given by the shortest text it matches: _S[0-9]{1,3}
\* matches at a position exactly when _S[0-9] does, and only the start of
\* the first match is used (regex.split(s)[0]).
regex_pe ==
    << Lit(<<"_", "S">>) \o <<Cls(Digit)>>,
       Lit(<<"_", "R">>) \o <<Cls({"1", "2"}), Dot>>,
       Lit(<<"_", "1">>) \o non_host_fastq_gz,
       Lit(<<"_", "2">>) \o non_host_fastq_gz >>

\* re.compile(".fastq|.fq.")
regex_se ==
    << <<Dot>> \o Lit(<<"f", "a", "s", "t", "q">>),
       <<Dot>> \o Lit(<<"f", "q">>) \o <<Dot>> >>

compile_regex(pe) == IF pe THEN regex_pe ELSE regex_se

MatchesAt(regex, s, i) ==
    \E a \in 1..Len(regex) : AltMatchesAt(regex[a], s, i)

\* the start of the leftmost match from i on, 0 when nothing matches
RECURSIVE SearchFrom(_, _, _)
SearchFrom(regex, s, i) ==
    IF i > Len(s) THEN 0
    ELSE IF MatchesAt(regex, s, i) THEN i
    ELSE SearchFrom(regex, s, i + 1)

\* regex.split(s)[0]: the text before the leftmost match, all of s when
\* nothing matches
regex_split_0(regex, s) ==
    LET k == SearchFrom(regex, s, 1)
    IN  IF k = 0 THEN s ELSE SubSeq(s, 1, k - 1)

\* ------------------------------------------------------------ int()
Whitespace == {" ", "\n", "\t"}

RECURSIVE LStrip(_)
LStrip(s) ==
    IF s # <<>> /\ Head(s) \in Whitespace THEN LStrip(Tail(s)) ELSE s

RECURSIVE RStrip(_)
RStrip(s) ==
    IF s # <<>> /\ s[Len(s)] \in Whitespace
    THEN RStrip(SubSeq(s, 1, Len(s) - 1)) ELSE s

Unsigned(s) ==
    LET t == RStrip(LStrip(s))
    IN  IF t # <<>> /\ Head(t) \in {"+", "-"} THEN Tail(t) ELSE t

\* int(s) returns: surrounding whitespace, one sign, then digits only
\* (the argument never holds "_": it is a piece of split("_"))
IntParses(s) ==
    LET u == Unsigned(s)
    IN  u # <<>> /\ \A k \in 1..Len(u) : u[k] \in Digit

RECURSIVE Magnitude(_)
Magnitude(u) ==
    IF u = <<>> THEN 0
    ELSE 10 * Magnitude(SubSeq(u, 1, Len(u) - 1)) + DigitVal(u[Len(u)])

IntValue(s) ==
    LET t == RStrip(LStrip(s))
    IN  IF Head(t) = "-" THEN 0 - Magnitude(Unsigned(s))
        ELSE Magnitude(Unsigned(s))

\* ------------------------------------------------------------ sort key
\* the first piece taken instead of the last: split("_")[0]
key_token_first(regex, s) ==
    LET parts == Split(regex_split_0(regex, s), <<"_">>)
    IN  parts[1]

\* regex.split(s)[0].split("_")[-1]
key_token(regex, s) ==
    LET parts == Split(regex_split_0(regex, s), <<"_">>)
    IN  parts[Len(parts)]

\* the lambda of sorted(): int(regex.split(s)[0].split("_")[-1])
sort_key(regex, s) == IntValue(key_token(regex, s))

\* int() raises ValueError on some name
sort_raises(regex, names) ==
    \E k \in 1..Len(names) : ~IntParses(key_token(regex, names[k]))

\* sorted(names, key=...) is stable: a name goes after every name already
\* placed whose key is not greater
RECURSIVE InsertByKey(_, _, _)
InsertByKey(regex, done, s) ==
    IF done = <<>> THEN <<s>>
    ELSE IF sort_key(regex, Head(done)) <= sort_key(regex, s)
         THEN <<Head(done)>> \o InsertByKey(regex, Tail(done), s)
         ELSE <<s>> \o done

\* the sorted list dropped: the names stay in scan order
sorted_dropped(regex, names) == names

RECURSIVE sorted(_, _)
sorted(regex, names) ==
    IF names = <<>> THEN <<>>
    ELSE InsertByKey(regex,
                     sorted(regex, SubSeq(names, 1, Len(names) - 1)),
                     names[Len(names)])

\* ------------------------------------------------------------ state
VARIABLES
    remote,     \* the remote platform's projects, in listing order
    cp,         \* cp[c]: the create_project frame of client c
    calls,      \* calls[c]: the create_project calls client c has returned from
    invoked,    \* invoked[c]: how often client c has called create_project
    args,       \* prepare's arguments: path, pattern, pid, name, pe, sort
    folder,     \* the names of the files under path, in traversal order
    pc,         \* where prepare is
    pid,        \* prepare's pid: None, the --pid text or the resolved identifier
    fastq_names,
    sorted_fastq_names,
    sample_ids,
    sample_file,    \* SampleList.csv on disk: whether it exists, its content
    before_run,     \* SampleList.csv as it was when prepare started
    fh,             \* the open file's buffer, written to disk when it closes
    i,              \* the loop index, counted in rows done
    reverse_reads,
    error           \* the exception prepare ended with

resolver_vars == <<remote, cp, calls, invoked>>
prepare_vars ==
    <<args, folder, pc, pid, fastq_names, sorted_fastq_names, sample_ids,
      sample_file, before_run, fh, i, reverse_reads, error>>
vars == <<resolver_vars, prepare_vars>>

\* the clients that share the remote platform
Clients == {1, 2}

demo == <<"d", "e", "m", "o">>
Demo == <<"D", "e", "m", "o">>
ProjectNames == {demo, Demo}

\* the listings the remote may hold at the start: up to MaxListing projects
\* with the identifiers 7, 8, ... (names may repeat: the remote enforces no
\* uniqueness)
InitialListings ==
    UNION { { [k \in 1..n |-> [id |-> 6 + k, name |-> names[k]]] :
                names \in [1..n -> ProjectNames] } : n \in 0..MaxListing }

NoFrame ==
    [pc |-> "idle", name |-> <<>>, projects_list |-> <<>>,
     existed_project |-> <<>>,
     created_project |-> [resource |-> [identifier |-> 0, name |-> <<>>]],
     ret |-> 0, lists |-> 0, creates |-> 0, raised |-> FALSE, before |-> 0]

\* ------------------------------------------------------------ remote API
\* _api.get_projects(): the full listing
get_projects(r) == r

\* the identifier the remote assigns to a new project: one it has not used
NewIdentifier(r) ==
    IF r = <<>> THEN 1
    ELSE 1 + (CHOOSE m \in {r[k].id : k \in 1..Len(r)} :
                \A k \in 1..Len(r) : r[k].id <= m)

\* _api.send_project(Project(name, description)): the response
send_project(r, name) ==
    [resource |-> [identifier |-> NewIdentifier(r), name |-> name]]

\* the remote after it has served send_project
RemoteAfterSend(r, name) ==
    Append(r, [id |-> NewIdentifier(r), name |-> name])

\* ------------------------------------------------------------ create_project
\* existed_project when the comparison never holds (prj == name, a Project
\* against a str)
existed_project_never(projects_list, name) == <<>>

Lower(ch) == IF ch = "D" THEN "d" ELSE ch
LowerCase(s) == [k \in 1..Len(s) |-> Lower(s[k])]

\* existed_project comparing the names without regard to case
existed_project_nocase(projects_list, name) ==
    LET same(prj) == LowerCase(prj.name) = LowerCase(name)
        hits == SelectSeq(projects_list, same)
    IN  [k \in 1..Len(hits) |-> hits[k].id]

\* [prj.id for prj in projects_list if prj.name == name]
existed_project(projects_list, name) ==
    LET same(prj) == prj.name = name
        hits == SelectSeq(projects_list, same)
    IN  [k \in 1..Len(hits) |-> hits[k].id]

\* the test of the branch turned around: len(existed_project) != 0
none_existed_negated(existed) == Len(existed) # 0

\* len(existed_project) == 0
none_existed(existed) == Len(existed) = 0

\* created_project['resource']['identifier']
project_id(created_project) == created_project.resource.identifier

\* the exception swallowed: create_project returns None
on_exception_swallowed == "returned"

\* except Exception as e: raise e
on_exception == "raised"

Finished(f) ==
    [name |-> f.name, projects_list |-> f.projects_list,
     created_project |-> f.created_project, ret |-> f.ret,
     lists |-> f.lists, creates |-> f.creates, before |-> f.before,
     after |-> Len(remote')]

\* the call create_project(name, config_file) by client c: a fresh frame
call_create_project(c, name) ==
    /\ cp' = [cp EXCEPT ![c] =
                [NoFrame EXCEPT !.pc = "list", !.name = name,
                                !.before = Len(remote)]]
    /\ invoked' = [invoked EXCEPT ![c] = @ + 1]

\* a client calls create_project, again once the call before has returned
Invoke(c, name) ==
    /\ cp[c].pc \in {"idle", "returned"}
    /\ Len(calls[c]) < MaxCalls
    /\ invoked[c] < MaxCalls
    /\ call_create_project(c, name)
    /\ UNCHANGED <<remote, calls, prepare_vars>>

\* initialize_irida_api, get_projects and the list comprehension
GetProjects(c) ==
    /\ cp[c].pc = "list"
    /\ LET projects_list == get_projects(remote)
       IN  cp' = [cp EXCEPT ![c].pc = "branch",
                            ![c].projects_list = projects_list,
                            ![c].existed_project =
                                existed_project(projects_list, cp[c].name),
                            ![c].lists = @ + 1]
    /\ UNCHANGED <<remote, calls, invoked, prepare_vars>>

\* initialize_irida_api or get_projects raises; create_project re-raises
GetProjectsRaises(c) ==
    /\ cp[c].pc = "list"
    /\ cp' = [cp EXCEPT ![c].pc = on_exception, ![c].raised = TRUE]
    /\ UNCHANGED <<remote, calls, invoked, prepare_vars>>

\* no project of that name was listed: create one and return its identifier
SendProject(c) ==
    /\ cp[c].pc = "branch"
    /\ none_existed(cp[c].existed_project)
    /\ LET created_project == send_project(remote, cp[c].name)
       IN  /\ remote' = RemoteAfterSend(remote, cp[c].name)
           /\ cp' = [cp EXCEPT ![c].pc = "returned",
                                ![c].creates = @ + 1,
                                ![c].created_project = created_project,
                                ![c].ret = project_id(created_project)]
           /\ calls' = [calls EXCEPT ![c] = Append(@, Finished(cp'[c]))]
    /\ UNCHANGED <<invoked, prepare_vars>>

\* send_project raises; the remote may or may not have created the project
SendProjectRaises(c) ==
    /\ cp[c].pc = "branch"
    /\ none_existed(cp[c].existed_project)
    /\ \E landed \in BOOLEAN :
          remote' = IF landed THEN RemoteAfterSend(remote, cp[c].name)
                    ELSE remote
    /\ cp' = [cp EXCEPT ![c].pc = on_exception, ![c].raised = TRUE,
                         ![c].creates = @ + 1]
    /\ UNCHANGED <<calls, invoked, prepare_vars>>

\* the else branch: return existed_project[0] (IndexError, re-raised, were
\* the list empty)
ReturnExisting(c) ==
    /\ cp[c].pc = "branch"
    /\ ~none_existed(cp[c].existed_project)
    /\ UNCHANGED <<remote, invoked, prepare_vars>>
    /\ IF cp[c].existed_project = <<>>
       THEN /\ cp' = [cp EXCEPT ![c].pc = on_exception, ![c].raised = TRUE]
            /\ calls' = calls
       ELSE /\ cp' = [cp EXCEPT ![c].pc = "returned",
                                 ![c].ret = cp[c].existed_project[1]]
            /\ calls' = [calls EXCEPT ![c] = Append(@, Finished(cp'[c]))]
    /\ UNCHANGED <<invoked, prepare_vars>>

\* ------------------------------------------------------------ inputs
None == [none |-> TRUE, v |-> <<>>]
Some(v) == [none |-> FALSE, v |-> v]

fastq_gz == <<".", "f", "a", "s", "t", "q", ".", "g", "z">>
R1_001_fastq_gz == <<"_", "R", "1", "_", "0", "0", "1">> \o fastq_gz

A_S2 == <<"A", "_", "S", "2">> \o R1_001_fastq_gz
A_S10 == <<"A", "_", "S", "1", "0">> \o R1_001_fastq_gz
A_10_S1 == <<"A", "_", "1", "0", "_", "S", "1">> \o R1_001_fastq_gz
A_2_S2 == <<"A", "_", "2", "_", "S", "2">> \o R1_001_fastq_gz
X_R1_Y == <<"X", "_", "R", "1", "_", "Y">> \o R1_001_fastq_gz
B_7_non_host ==
    <<"B", "_", "7", "_", "R", "1", ".", "n", "o", "n", "_", "h", "o", "s", "t">>
    \o fastq_gz
s_3 == <<"s", "_", "3">> \o fastq_gz
a_comma_b == <<"a", ",", " ", "b">> \o fastq_gz
weird_file_gz ==
    <<"w", "e", "i", "r", "d", ".", "f", "i", "l", "e", ".", "g", "z">>

FileNames ==
    {A_S2, A_S10, A_10_S1, A_2_S2, X_R1_Y, B_7_non_host, s_3, a_comma_b,
     weird_file_gz}

\* the folders: up to MaxFiles files, in the order the traversal yields them
\* (rglob descends into subfolders, so a name may come twice)
Folders == UNION { [1..n -> FileNames] : n \in 0..MaxFiles }

\* --pattern: the default, and one that takes every .gz file
default_pattern == <<"*">> \o R1_001_fastq_gz
gz_pattern == <<"*", ".", "g", "z">>

\* path: a run folder named after its run date, and one that is not
run_path ==
    <<"/", "d", "/", "2", "3", "0", "1", "0", "1", "_", "N", "B", "5">>
plain_path == <<"/", "d", "/", "r", "u", "n", "_", "1">>

\* --pid, --name and path as they come together, with the projects the
\* remote lists when prepare starts
Targets ==
    { [pid |-> Some(<<"4", "2">>), name |-> None, path |-> plain_path,
       listing |-> <<>>],
      [pid |-> None, name |-> Some(demo), path |-> plain_path,
       listing |-> <<[id |-> 7, name |-> demo]>>],
      [pid |-> None, name |-> None, path |-> plain_path,
       listing |-> <<[id |-> 7, name |-> demo]>>],
      [pid |-> None, name |-> None, path |-> run_path,
       listing |-> <<>>] }

\* --pe/--se with --pattern: single-end reads ignore the pattern
Modes ==
    { [pe |-> TRUE, pattern |-> default_pattern],
      [pe |-> TRUE, pattern |-> gz_pattern],
      [pe |-> FALSE, pattern |-> default_pattern] }

\* datetime.date.today().strftime("%y%m%d")
today == <<"2", "6", "1", "1", "0", "5">>

NoFile == [exists |-> FALSE, content |-> <<>>]
OldFile == [exists |-> TRUE, content |-> <<"o", "l", "d", "\n">>]

\* ------------------------------------------------------------ prepare
\* the project resolved whether or not --pid is given
pid_is_None_always(a) == TRUE

\* if pid is None
pid_is_None(a) == a.pid.none

\* re.search("[0-9]{6}(?=\_NB)", path): the six digits, None without a match
six_digits_NB == [k \in 1..6 |-> Cls(Digit)] \o Lit(<<"_", "N", "B">>)

run_date_of(path) ==
    LET k == SearchFrom(<<six_digits_NB>>, path, 1)
    IN  IF k = 0 THEN today ELSE SubSeq(path, k, k + 5)

\* pathlib.Path(path).parts[-1]
last_part(path) ==
    LET parts == Split(path, <<"/">>) IN parts[Len(parts)]

\* f'QIB-{p.parts[-1].replace("_","-")}-{run_date}', or --name
project_name_of(a) ==
    IF a.name.none
    THEN <<"Q", "I", "B", "-">> \o Replace(last_part(a.path), <<"_">>, <<"-">>)
         \o <<"-">> \o run_date_of(a.path)
    ELSE a.name.v

\* the pattern scanned for: --pattern, "*.fastq.gz" for single-end reads
scan_pattern(a) == IF a.pe THEN a.pattern ELSE <<"*">> \o fastq_gz

\* a name matches a pattern "*<text>" when it ends in <text>
glob_matches(name, pattern) ==
    /\ pattern # <<>>
    /\ Head(pattern) = "*"
    /\ EndsWith(name, Tail(pattern))

\* [fq.name for fq in p.rglob(pattern)]
rglob_names(files, pattern) ==
    LET hit(name) == glob_matches(name, pattern)
    IN  SelectSeq(files, hit)

R1_ == <<"_", "R", "1", "_">>
R2_ == <<"_", "R", "2", "_">>
R1_non_host == <<"_", "R", "1">> \o SubSeq(B_7_non_host, 7, Len(B_7_non_host))
R2_non_host == <<"_", "R", "2">> \o SubSeq(B_7_non_host, 7, Len(B_7_non_host))

\* neither "_R1_" nor "_R1.non_host.fastq.gz" is in the name
invalid_file_name(name) ==
    ~Contains(name, R1_) /\ ~Contains(name, R1_non_host)

\* reverse_reads of the loop body, for a name that is not invalid
reverse_of(pe, name) ==
    IF ~pe THEN <<>>
    ELSE IF Contains(name, R1_) THEN Replace(name, R1_, R2_)
    ELSE Replace(name, R1_non_host, R2_non_host)

\* f"{pid}"
pid_text(p) == IF p.kind = "int" THEN IntToStr(p.int) ELSE p.str

\* f"{sample_ids[i]}, {pid}, {_sorted_fastq_names[i]}, {reverse_reads}\n"
row(sample_id, p, name, reverse) ==
    sample_id \o <<",", " ">> \o pid_text(p) \o <<",", " ">> \o name
    \o <<",", " ">> \o reverse \o <<"\n">>

header ==
    <<"[", "D", "a", "t", "a", "]", "\n">>
    \o <<"S", "a", "m", "p", "l", "e", "_", "N", "a", "m", "e", ",">>
    \o <<"P", "r", "o", "j", "e", "c", "t", "_", "I", "D", ",">>
    \o <<"F", "i", "l", "e", "_", "F", "o", "r", "w", "a", "r", "d", ",">>
    \o <<"F", "i", "l", "e", "_", "R", "e", "v", "e", "r", "s", "e", "\n">>

NoPid == [kind |-> "none", str |-> <<>>, int |-> 0]
Closed == [open |-> FALSE, buf |-> <<>>]

\* p = pathlib.Path(path), and the project: --pid as given, or the call of
\* create_project(name=project_name, config_file=config)
Start ==
    /\ pc = "start"
    /\ IF pid_is_None(args)
       THEN /\ call_create_project(1, project_name_of(args))
            /\ pc' = "create_project"
            /\ pid' = pid
       ELSE /\ pid' = [kind |-> "str", str |-> args.pid.v, int |-> 0]
            /\ pc' = "scan"
            /\ UNCHANGED <<cp, invoked>>
    /\ UNCHANGED <<remote, calls, args, folder, fastq_names,
                   sorted_fastq_names, sample_ids, sample_file, before_run,
                   fh, i, reverse_reads, error>>

\* create_project has returned: pid = its result
Resolved ==
    /\ pc = "create_project"
    /\ cp[1].pc = "returned"
    /\ pid' = [kind |-> "int", str |-> <<>>, int |-> cp[1].ret]
    /\ pc' = "scan"
    /\ UNCHANGED <<resolver_vars, args, folder, fastq_names,
                   sorted_fastq_names, sample_ids, sample_file, before_run,
                   fh, i, reverse_reads, error>>

\* create_project has raised: prepare ends with its exception
ResolveRaised ==
    /\ pc = "create_project"
    /\ cp[1].pc = "raised"
    /\ pc' = "failed"
    /\ error' = "create_project"
    /\ UNCHANGED <<resolver_vars, args, folder, pid, fastq_names,
                   sorted_fastq_names, sample_ids, sample_file, before_run,
                   fh, i, reverse_reads>>

\* the regex, the pattern, and the scan of the folder
Scan ==
    /\ pc = "scan"
    /\ fastq_names' = rglob_names(folder, scan_pattern(args))
    /\ pc' = "sort"
    /\ UNCHANGED <<resolver_vars, args, folder, pid, sorted_fastq_names,
                   sample_ids, sample_file, before_run, fh, i,
                   reverse_reads, error>>

\* if sort: sorted(...), which raises ValueError when a key is no int; then
\* the sample ids
Sort ==
    /\ pc = "sort"
    /\ LET regex == compile_regex(args.pe)
       IN  IF args.sort /\ sort_raises(regex, fastq_names)
           THEN /\ pc' = "failed"
                /\ error' = "int"
                /\ UNCHANGED <<sorted_fastq_names, sample_ids>>
           ELSE /\ sorted_fastq_names' =
                      IF args.sort THEN sorted(regex, fastq_names)
                      ELSE fastq_names
                /\ sample_ids' =
                      [k \in 1..Len(sorted_fastq_names') |->
                          regex_split_0(regex, sorted_fastq_names'[k])]
                /\ pc' = "open"
                /\ error' = error
    /\ UNCHANGED <<resolver_vars, args, folder, pid, fastq_names,
                   sample_file, before_run, fh, i, reverse_reads>>

\* sample_file.open(mode="w") creates or empties the file; the two header
\* lines go to the buffer
Open ==
    /\ pc = "open"
    /\ sample_file' = [exists |-> TRUE, content |-> <<>>]
    /\ fh' = [open |-> TRUE, buf |-> header]
    /\ i' = 0
    /\ pc' = "loop"
    /\ UNCHANGED <<resolver_vars, args, folder, pid, fastq_names,
                   sorted_fastq_names, sample_ids, before_run,
                   reverse_reads, error>>

\* open raises OSError (no such folder, no permission)
OpenRaises ==
    /\ pc = "open"
    /\ pc' = "failed"
    /\ error' = "open"
    /\ UNCHANGED <<resolver_vars, args, folder, pid, fastq_names,
                   sorted_fastq_names, sample_ids, sample_file, before_run,
                   fh, i, reverse_reads>>

\* one turn of the loop: the row of the next name, or ValueError("Invalid
\* file name"), on which the with statement closes the file
WriteRow ==
    /\ pc = "loop"
    /\ i < Len(sorted_fastq_names)
    /\ LET name == sorted_fastq_names[i + 1]
       IN  IF args.pe /\ invalid_file_name(name)
           THEN /\ sample_file' = [exists |-> TRUE, content |-> fh.buf]
                /\ fh' = Closed
                /\ pc' = "failed"
                /\ error' = "invalid_file_name"
                /\ UNCHANGED <<i, reverse_reads>>
           ELSE /\ reverse_reads' = reverse_of(args.pe, name)
                /\ fh' = [fh EXCEPT !.buf =
                            @ \o row(sample_ids[i + 1], pid, name,
                                     reverse_reads')]
                /\ i' = i + 1
                /\ UNCHANGED <<sample_file, pc, error>>
    /\ UNCHANGED <<resolver_vars, args, folder, pid, fastq_names,
                   sorted_fastq_names, sample_ids, before_run>>

\* the loop is over: the with statement closes the file, print("Finish!")
Close ==
    /\ pc = "loop"
    /\ i = Len(sorted_fastq_names)
    /\ sample_file' = [exists |-> TRUE, content |-> fh.buf]
    /\ fh' = Closed
    /\ pc' = "done"
    /\ UNCHANGED <<resolver_vars, args, folder, pid, fastq_names,
                   sorted_fastq_names, sample_ids, before_run, i,
                   reverse_reads, error>>

\* ------------------------------------------------------------ specifications
IdleClients ==
    /\ cp = [c \in Clients |-> NoFrame]
    /\ calls = [c \in Clients |-> <<>>]
    /\ invoked = [c \in Clients |-> 0]

\* one run of prepare, alone on the remote
Init ==
    /\ IdleClients
    /\ \E tg \in Targets, m \in Modes, sort \in BOOLEAN :
          /\ remote = tg.listing
          /\ args = [path |-> tg.path, pattern |-> m.pattern, pid |-> tg.pid,
                     name |-> tg.name, pe |-> m.pe, sort |-> sort]
    /\ folder \in Folders
    /\ pc = "start"
    /\ pid = NoPid
    /\ fastq_names = <<>>
    /\ sorted_fastq_names = <<>>
    /\ sample_ids = <<>>
    /\ sample_file \in {NoFile, OldFile}
    /\ before_run = sample_file
    /\ fh = Closed
    /\ i = 0
    /\ reverse_reads = <<>>
    /\ error = "none"

Next ==
    \/ Start
    \/ GetProjects(1)
    \/ GetProjectsRaises(1)
    \/ SendProject(1)
    \/ SendProjectRaises(1)
    \/ ReturnExisting(1)
    \/ Resolved
    \/ ResolveRaised
    \/ Scan
    \/ Sort
    \/ Open
    \/ OpenRaises
    \/ WriteRow
    \/ Close

Spec == Init /\ [][Next]_vars

\* the clients of one remote, each calling create_project up to MaxCalls
\* times; prepare is not running
InitResolver ==
    /\ remote \in InitialListings
    /\ IdleClients
    /\ args = [path |-> plain_path, pattern |-> default_pattern,
               pid |-> None, name |-> None, pe |-> FALSE, sort |-> FALSE]
    /\ folder = <<>>
    /\ pc = "off"
    /\ pid = NoPid
    /\ fastq_names = <<>>
    /\ sorted_fastq_names = <<>>
    /\ sample_ids = <<>>
    /\ sample_file = NoFile
    /\ before_run = NoFile
    /\ fh = Closed
    /\ i = 0
    /\ reverse_reads = <<>>
    /\ error = "none"

NextResolver ==
    \E c \in Clients :
        \/ \E name \in ProjectNames : Invoke(c, name)
        \/ GetProjects(c)
        \/ GetProjectsRaises(c)
        \/ SendProject(c)
        \/ SendProjectRaises(c)
        \/ ReturnExisting(c)

SpecResolver == InitResolver /\ [][NextResolver]_vars

\* ------------------------------------------------------------ observations
\* the name is the name of no listed project
Absent(name, listing) == \A k \in 1..Len(listing) : listing[k].name # name

\* the frames of client c: the calls it has returned from and the current one
Frames(c) == {calls[c][k] : k \in 1..Len(calls[c])} \cup {cp[c]}

\* no client but c has sent a create request
OnlyWriter(c) ==
    \A d \in Clients \ {c} : \A f \in Frames(d) : f.creates = 0

\* the with statement has closed the file: on the last row, or on the
\* ValueError of an invalid file name
FileClosed == pc = "done" \/ error = "invalid_file_name"

\* prepare is past the sort
Sorted ==
    \/ pc \in {"open", "loop", "done"}
    \/ error \in {"open", "invalid_file_name"}

\* the lines of a text file (the last one ends in a newline)
Lines(text) ==
    LET pieces == Split(text, <<"\n">>)
    IN  SubSeq(pieces, 1, Len(pieces) - 1)

\* a manifest read back: the two header lines skipped, each other line
\* split on ", "
ParseManifest(text) ==
    LET lines == Lines(text)
    IN  [k \in 1..(Len(lines) - 2) |-> Split(lines[k + 2], <<",", " ">>)]

\* the records prepare has written: one for each of the first n names
Records(n) ==
    [k \in 1..n |->
        <<sample_ids[k], pid_text(pid), sorted_fastq_names[k],
          reverse_of(args.pe, sorted_fastq_names[k])>>]

\* ------------------------------------------------------------ C1
\* C1: in paired-end mode, when a scanned name matches neither pairing
\* rule, prepare fails and no manifest is written: SampleList.csv is as it
\* was before the run (absent if it was absent, no header, no rows).
C1_NoManifestOnInvalidName ==
    error = "invalid_file_name" => sample_file = before_run

\* ------------------------------------------------------------ C2
\* C2: without another writer, two calls of create_project with the same
\* name, one after the other, return the same identifier, the second sends
\* no create request, and the remote holds at most one project more than
\* before the first call.
C2_Idempotent ==
    \A c \in Clients : \A k \in 1..(Len(calls[c]) - 1) :
        LET first == calls[c][k]
            second == calls[c][k + 1]
        IN  (OnlyWriter(c) /\ first.name = second.name)
            => /\ second.ret = first.ret
               /\ second.creates = 0
               /\ second.after <= first.before + 1

\* a client alone on the remote has created a project and resolved the same
\* name again
C2_Witness ==
    \E c \in Clients :
        /\ OnlyWriter(c)
        /\ Len(calls[c]) >= 2
        /\ calls[c][1].name = calls[c][2].name
        /\ calls[c][1].creates = 1
        /\ calls[c][2].after = calls[c][1].before + 1

\* ------------------------------------------------------------ C3
\* C3: within one call the listing is fetched once, before any create; one
\* create request is sent exactly when no listed project has the requested
\* name (compared exactly, case included), and the call returns the
\* identifier of the create response; otherwise no create is sent and the
\* call returns the id of the first listed project of that name.
C3_OneListingThenMaybeCreate ==
    \A c \in Clients :
        /\ \A f \in Frames(c) :
              /\ f.lists <= 1
              /\ f.creates <= 1
              /\ f.creates = 1 => f.lists = 1
        /\ \A k \in 1..Len(calls[c]) :
              LET f == calls[c][k]
              IN  /\ f.lists = 1
                  /\ f.creates = 1 <=> Absent(f.name, f.projects_list)
                  /\ f.creates = 0 <=> ~Absent(f.name, f.projects_list)
                  /\ f.creates = 1 =>
                        /\ f.ret = f.created_project.resource.identifier
                        /\ \E j \in 1..Len(remote) :
                              /\ remote[j] = [id |-> f.ret, name |-> f.name]
                              /\ j > Len(f.projects_list)
                  /\ f.creates = 0 =>
                        \E j \in 1..Len(f.projects_list) :
                            /\ f.projects_list[j].name = f.name
                            /\ f.ret = f.projects_list[j].id
                            /\ \A h \in 1..(j - 1) :
                                  f.projects_list[h].name # f.name

\* a call has created "demo" although "Demo" was listed, and the next call
\* has found it behind "Demo"
C3_Witness ==
    \E c \in Clients :
        /\ Len(calls[c]) >= 2
        /\ calls[c][1].name = demo
        /\ calls[c][1].creates = 1
        /\ ~Absent(Demo, calls[c][1].projects_list)
        /\ calls[c][2].name = demo
        /\ calls[c][2].creates = 0
        /\ calls[c][2].ret = calls[c][1].ret

\* ------------------------------------------------------------ C4
\* C4: the listing and the create are not atomic across clients. A call
\* acts on the listing it fetched, whatever the remote holds by then: once
\* past the branch with the name absent from its listing it has sent its
\* create request; so two calls for the same name that both listed before
\* either created leave two remote projects of that name and return
\* different identifiers. (The witness is the interleaving.)
C4_BothCreate ==
    /\ \A c \in Clients :
          ( /\ cp[c].pc \in {"returned", "raised"}
            /\ cp[c].lists = 1
            /\ Absent(cp[c].name, cp[c].projects_list) )
          => cp[c].creates = 1
    /\ \A c, d \in Clients :
          ( /\ c # d
            /\ cp[c].pc = "returned" /\ cp[d].pc = "returned"
            /\ cp[c].name = cp[d].name
            /\ Absent(cp[c].name, cp[c].projects_list)
            /\ Absent(cp[d].name, cp[d].projects_list) )
          => /\ cp[c].ret # cp[d].ret
             /\ \E j, h \in 1..Len(remote) :
                   /\ remote[j] = [id |-> cp[c].ret, name |-> cp[c].name]
                   /\ remote[h] = [id |-> cp[d].ret, name |-> cp[c].name]
                   /\ j # h

\* both clients listed a remote without "demo", both created it
C4_Witness ==
    /\ cp[1].pc = "returned" /\ cp[2].pc = "returned"
    /\ cp[1].name = demo /\ cp[2].name = demo
    /\ cp[1].projects_list = cp[2].projects_list
    /\ Absent(demo, cp[1].projects_list)
    /\ cp[1].creates = 1 /\ cp[2].creates = 1
    /\ cp[1].ret # cp[2].ret
    /\ Cardinality({j \in 1..Len(remote) : remote[j].name = demo}) = 2

\* ------------------------------------------------------------ C5
\* the place of the first row of a name among the rows written, 0 if none
RowOf(name) ==
    IF \E k \in 1..i : sorted_fastq_names[k] = name
    THEN CHOOSE k \in 1..i :
            /\ sorted_fastq_names[k] = name
            /\ \A j \in 1..(k - 1) : sorted_fastq_names[j] # name
    ELSE 0

InScan(name) == \E k \in 1..Len(fastq_names) : fastq_names[k] = name

SameElements(a, b) ==
    /\ Len(a) = Len(b)
    /\ \A x \in {a[k] : k \in 1..Len(a)} \cup {b[k] : k \in 1..Len(b)} :
          Cardinality({k \in 1..Len(a) : a[k] = x})
          = Cardinality({k \in 1..Len(b) : b[k] = x})

DiffersInOneMarker(forward, reverse) ==
    /\ Len(reverse) = Len(forward)
    /\ \E k \in 1..Len(forward) :
          /\ OccursAt(forward, k, R1_)
          /\ OccursAt(reverse, k, R2_)
          /\ \A j \in 1..Len(forward) : j # k + 2 => reverse[j] = forward[j]

\* C6: for a paired-end forward name holding "_R1_", the reverse name of its
\* row has the same length and differs from it only in the read-direction
\* marker, "_R1_" turned into "_R2_", and in no other part of the name, also
\* when "_R1_" occurs more than once.
C6_ReverseDiffersOnlyInMarker ==
    ( /\ args.pe
      /\ i >= 1
      /\ Contains(sorted_fastq_names[i], R1_) )
    => DiffersInOneMarker(sorted_fastq_names[i], reverse_reads)

\* ------------------------------------------------------------ C7
\* C7: the manifest of a finished run, read back (two header lines skipped,
\* every other line split on ", "), gives the records written, in order,
\* whatever the file names (a name holding ", ", an empty reverse file).
C7_ManifestRoundTrip ==
    pc = "done" => ParseManifest(sample_file.content) = Records(i)

\* ------------------------------------------------------------ C8
\* prepare has scanned the folder
Scanned ==
    \/ pc \in {"sort", "open", "loop", "done"}
    \/ error \in {"int", "open", "invalid_file_name"}

\* C8: without --pid, the listing and any create have completed before the
\* folder is scanned and the manifest is opened; when the listing or the
\* create fails, prepare ends with the manifest neither created nor changed.
C8_ResolveBeforeManifest ==
    /\ (args.pid.none /\ pc \in {"start", "create_project"})
       => /\ ~Scanned
          /\ ~fh.open
          /\ sample_file = before_run
    /\ (args.pid.none /\ (Scanned \/ pc = "scan"))
       => /\ cp[1].pc = "returned"
          /\ cp[1].lists = 1
          /\ ~cp[1].raised
          /\ cp[1].creates = 1 <=> Absent(cp[1].name, cp[1].projects_list)
          /\ pid = [kind |-> "int", str |-> <<>>, int |-> cp[1].ret]
    /\ cp[1].raised
       => /\ pc \in {"create_project", "failed"}
          /\ pc = "failed" => error = "create_project"
          /\ ~Scanned
          /\ ~fh.open
          /\ sample_file = before_run

\* the create request failed and prepare ended, the old manifest untouched
C8_Witness ==
    /\ cp[1].raised
    /\ cp[1].creates = 1
    /\ pc = "failed"
    /\ before_run = OldFile
    /\ sample_file = OldFile

\* ------------------------------------------------------------ C9
\* the text of the project id of this run: --pid, or what create_project
\* returned
RunPid == IF args.pid.none THEN IntToStr(cp[1].ret) ELSE args.pid.v

\* the text begins with the prefix
StartsWith(text, prefix) == OccursAt(text, 1, prefix)

\* C9: create_project is called once when --pid is not given and never when
\* it is (then no remote call is made), and every row written carries the
\* same project id, --pid or the resolved one, however many files there are
\* (read from the file once prepare has closed it).
C9_OneProjectId ==
    /\ invoked[1] = IF args.pid.none /\ pc # "start" THEN 1 ELSE 0
    /\ ~args.pid.none
       => /\ cp[1] = NoFrame
          /\ calls[1] = <<>>
          /\ \A t \in Targets :
                (t.pid = args.pid /\ t.path = args.path) => remote = t.listing
    /\ FileClosed
       => LET lines == Lines(sample_file.content)
          IN  /\ Len(lines) = i + 2
              /\ \A k \in 1..i :
                    StartsWith(lines[k + 2],
                               sample_ids[k] \o <<",", " ">> \o RunPid
                               \o <<",", " ">> \o sorted_fastq_names[k]
                               \o <<",", " ">>)

\* two rows under a project that this run created
C9_Witness ==
    /\ pc = "done"
    /\ args.pid.none
    /\ cp[1].creates = 1
    /\ i = 2
    /\ Len(Lines(sample_file.content)) = 4

\* ------------------------------------------------------------ C10
\* the last "_"-delimited piece of a text: what follows its last "_"
LastPiece(text) ==
    LET under == {k \in 1..Len(text) : text[k] = "_"}
        last == IF under = {} THEN 0
                ELSE CHOOSE k \in under : \A j \in under : j <= k
    IN  SubSeq(text, last + 1, Len(text))

\* the name has a trailing numeric token int() accepts
HasNumber(name) ==
    IntParses(LastPiece(regex_split_0(compile_regex(args.pe), name)))

\* C10: with sort requested, a scanned name without a parseable trailing
\* numeric token makes prepare fail in the sort, before any order is kept
\* and before the manifest is opened: no row is written and an existing
\* manifest stays as it was; names that all have the token never do.
C10_UnsortableFailsBeforeOpen ==
    /\ error = "int"
       => /\ args.sort
          /\ \E k \in 1..Len(fastq_names) : ~HasNumber(fastq_names[k])
          /\ pc = "failed"
          /\ sorted_fastq_names = <<>>
          /\ sample_ids = <<>>
          /\ ~fh.open
          /\ i = 0
          /\ sample_file = before_run
    /\ (args.sort /\ Sorted)
       => \A k \in 1..Len(fastq_names) : HasNumber(fastq_names[k])

\* the second of two names has no number: the sort failed, the old manifest
\* is as it was
C10_Witness ==
    /\ error = "int"
    /\ Len(fastq_names) = 2
    /\ HasNumber(fastq_names[1])
    /\ ~HasNumber(fastq_names[2])
    /\ before_run = OldFile
    /\ sample_file = OldFile

====
